---- MODULE Spec2Model ----
(***************************************************************************)
(* A model of marcdump: the selector parser (getSelectionSpec), the record *)
(* matcher (selectionSpec.match), the renderer (printRecord and            *)
(* printDataField) and the dump loop of main.                              *)
(*                                                                         *)
(* Strings are sequences of one-character strings, so that they can be     *)
(* indexed, sliced and concatenated the way the Go code does.              *)
(***************************************************************************)
EXTENDS Integers, Sequences, FiniteSets, TLC

VARIABLES
    prog,          \* which main is running: "marcdump" (marcdump.go) or "part_000"
    nargs,         \* flag.NArg()
    fileOk,        \* whether os.Open(flag.Arg(0)) succeeds
    maxRecords,    \* -m
    makeIndex,     \* -mkindex
    selectorOpt,   \* -s
    fieldsOpt,     \* -f
    input,         \* what the decoder yields for the file, in order: records and decode errors
    pc,            \* position in main
    selector,      \* main's local selector (a *selectionSpec)
    action,        \* main's local action (an actionFunc, possibly nil)
    recordCount,   \* main's local recordCount
    pos,           \* number of items the reader has consumed from input
    nextCalls,     \* number of calls of reader.Next() so far
    rec,           \* the record under the matcher (main's local rec)
    matchRet,      \* the value returned by the last call of match
    out,           \* standard output: the lines flushed by the tabwriter
    errs,          \* standard error: the diagnostics written, in order
    exitStatus,    \* the process's exit status, -1 while it runs
    rendered       \* history: the positions in input of the records handed to action

vars == <<prog, nargs, fileOk, maxRecords, makeIndex, selectorOpt, fieldsOpt, input,
          pc, selector, action, recordCount, pos, nextCalls, rec, matchRet, out,
          errs, exitStatus, rendered>>

----------------------------------------------------------------------------
(* Bounds of the model *)

\* longest input stream (records and decode errors)
MaxStream == 3
\* largest explicit -m value; any larger value never equals recordCount
MaxLimit == 2
\* longest selector string of the parser's specification
MaxSelLen == 7
\* most occurrences of the data field in the matcher's specification
MaxOcc == 2

----------------------------------------------------------------------------
(* Strings *)

EmptyStr == <<>>

Digits == {"0", "1", "2", "3", "4", "5", "6", "7", "8", "9"}
Lower == {"a", "b", "c", "d", "e", "f", "g", "h", "i", "j", "k", "l", "m",
          "n", "o", "p", "q", "r", "s", "t", "u", "v", "w", "x", "y", "z"}
Upper == {"A", "B", "C", "D", "E", "F", "G", "H", "I", "J", "K", "L", "M",
          "N", "O", "P", "Q", "R", "S", "T", "U", "V", "W", "X", "Y", "Z"}

\* strings.Contains: p occurs in s as a contiguous substring
Contains(s, p) ==
    \E i \in 0..(Len(s) - Len(p)) : SubSeq(s, i + 1, i + Len(p)) = p

----------------------------------------------------------------------------
(* The regexp package, for the patterns the model uses: literal characters *)
(* and groups ( ... ).                                                     *)

\* regexp.Compile succeeds iff the parentheses of the pattern are balanced
RECURSIVE parenDepthOk(_, _, _)
parenDepthOk(p, i, depth) ==
    IF i > Len(p) THEN depth = 0
    ELSE IF p[i] = "(" THEN parenDepthOk(p, i + 1, depth + 1)
    ELSE IF p[i] = ")" THEN depth > 0 /\ parenDepthOk(p, i + 1, depth - 1)
    ELSE parenDepthOk(p, i + 1, depth)

regexpCompileOk(p) == parenDepthOk(p, 1, 0)

\* the literal a pattern of literals and groups stands for
regexpLiteral(p) == SelectSeq(p, LAMBDA c : c \notin {"(", ")"})

\* a nil *regexp.Regexp and a compiled one (kept as its source expression)
NilRegexp == [isNil |-> TRUE, expr |-> EmptyStr]
regexpCompiled(p) == [isNil |-> FALSE, expr |-> p]

\* (*Regexp).MatchString: an unanchored search
MatchString(re, s) == Contains(s, regexpLiteral(re.expr))

----------------------------------------------------------------------------
(* The selector parser *)

\* the value of new(selectionSpec): every member zero
ZeroSpec == [field |-> EmptyStr, subfield |-> EmptyStr, criterion |-> NilRegexp]

\* [0-9A-Za-z], the class of a field character
fieldClass(c) == c \in Digits \cup Upper \cup Lower
\* [0-9a-z], the class of the subfield character
subfieldClass(c) == c \in Digits \cup Lower
\* '.', which without the s flag matches every character but a newline
dotClass(c) == c # "\n"

\* specGroup with (.*) for (.+): an empty specification after '=' is accepted
specGroup_emptyPattern(s, p) ==
    IF /\ Len(s) >= p + 1
       /\ s[p + 1] = "="
       /\ \A i \in (p + 2)..Len(s) : dotClass(s[i])
    THEN [ok |-> TRUE, g3 |-> SubSeq(s, p + 2, Len(s))]
    ELSE IF Len(s) = p
    THEN [ok |-> TRUE, g3 |-> EmptyStr]
    ELSE [ok |-> FALSE, g3 |-> EmptyStr]

\* (?:=(.+))?$ tried at offset p of s (p characters consumed): the text of
\* group 3 when the rest of s matches, with ok = FALSE when it does not
specGroup(s, p) ==
    IF /\ Len(s) >= p + 2
       /\ s[p + 1] = "="
       /\ \A i \in (p + 2)..Len(s) : dotClass(s[i])
    THEN [ok |-> TRUE, g3 |-> SubSeq(s, p + 2, Len(s))]
    ELSE IF Len(s) = p
    THEN [ok |-> TRUE, g3 |-> EmptyStr]
    ELSE [ok |-> FALSE, g3 |-> EmptyStr]

\* selectionSpecRegexp.FindStringSubmatch(s): nil (ok = FALSE), or the groups
\* 1 (field), 2 (subfield or "") and 3 (specification or "")
selectionSpecRegexp(s) ==
    LET noMatch == [ok |-> FALSE, g1 |-> EmptyStr, g2 |-> EmptyStr, g3 |-> EmptyStr]
    IN  IF Len(s) < 3 \/ \E i \in 1..3 : ~fieldClass(s[i])
        THEN noMatch
        ELSE LET withSub == IF Len(s) >= 5 /\ s[4] = "_" /\ subfieldClass(s[5])
                            THEN specGroup(s, 5)
                            ELSE [ok |-> FALSE, g3 |-> EmptyStr]
                 without == specGroup(s, 3)
             IN  IF withSub.ok
                 THEN [ok |-> TRUE, g1 |-> SubSeq(s, 1, 3), g2 |-> SubSeq(s, 5, 5),
                       g3 |-> withSub.g3]
                 ELSE IF without.ok
                 THEN [ok |-> TRUE, g1 |-> SubSeq(s, 1, 3), g2 |-> EmptyStr,
                       g3 |-> without.g3]
                 ELSE noMatch

\* the error values getSelectionSpec returns
NoError == "nil"
errInvalidSelectorSpec == "marcdump: invalid selector specification"
errRegexpCompile == "error parsing regexp"

\* getSelectionSpec(), reading the option string opt: the pair (spec, err);
\* spec is meaningful only when err is NoError
getSelectionSpec(opt) ==
    IF opt # EmptyStr
    THEN LET spec == selectionSpecRegexp(opt)
         IN  IF spec.ok
             THEN IF spec.g3 # EmptyStr /\ ~regexpCompileOk(spec.g3)
                  THEN [spec |-> ZeroSpec, err |-> errRegexpCompile]
                  ELSE [spec |-> [field |-> spec.g1,
                                  subfield |-> spec.g2,
                                  criterion |-> IF spec.g3 # EmptyStr
                                                THEN regexpCompiled(spec.g3)
                                                ELSE NilRegexp],
                        err |-> NoError]
             ELSE [spec |-> ZeroSpec, err |-> errInvalidSelectorSpec]
    ELSE [spec |-> ZeroSpec, err |-> NoError]

----------------------------------------------------------------------------
(* The record model of the marc21 package, as the program consumes it.    *)
(* A record is its leader and its fields in file order; a field is        *)
(* [tag, value, ind, subs]: a control field has a value, a data field     *)
(* occurrence has two indicators and a list of <<code, value>> subfields  *)
(* with distinct codes.                                                   *)

\* marc21.IsControlFieldTag: the tags 00X
IsControlFieldTag(tag) == Len(tag) = 3 /\ tag[1] = "0" /\ tag[2] = "0"

\* (*MarcRecord).GetLeader
GetLeader(r) == r.leader

\* (*MarcRecord).GetFieldList: the tags in file order, one per field of the file
GetFieldList(r) == [i \in 1..Len(r.fields) |-> r.fields[i].tag]

\* (*MarcRecord).GetControlField: (value, err), err set when the record has no such field
GetControlField(r, tag) ==
    LET hits == SelectSeq(r.fields, LAMBDA f : f.tag = tag)
    IN  IF hits = <<>>
        THEN [value |-> EmptyStr, err |-> TRUE]
        ELSE [value |-> hits[1].value, err |-> FALSE]

\* (*MarcRecord).GetDataField: the VariableField of a tag, holding its occurrences
\* in file order (none when the record has no such field)
GetDataField(r, tag) ==
    [Tag |-> tag, occ |-> SelectSeq(r.fields, LAMBDA f : f.tag = tag)]

\* (VariableField).ValueCount
ValueCount(field) == Len(field.occ)

\* (VariableField).GetIndicators(i), i counted from 0
GetIndicators(field, i) == field.occ[i + 1].ind

\* (VariableField).GetSubfields(i): the codes present in occurrence i
GetSubfields(field, i) ==
    [k \in 1..Len(field.occ[i + 1].subs) |-> field.occ[i + 1].subs[k][1]]

\* (VariableField).GetNthSubfield(code, i): the value of code in occurrence i, "" when absent
GetNthSubfield(field, code, i) ==
    LET hits == SelectSeq(field.occ[i + 1].subs, LAMBDA sf : sf[1] = code)
    IN  IF hits = <<>> THEN EmptyStr ELSE hits[1][2]

----------------------------------------------------------------------------
(* The matcher *)

\* the body of "for _, subfield := range subfields", from index k on
RECURSIVE matchSubfields(_, _, _, _, _)
matchSubfields(s, field, instance, subfields, k) ==
    IF k > Len(subfields) THEN FALSE
    ELSE LET sfv == GetNthSubfield(field, subfields[k], instance)
         IN  IF sfv # EmptyStr
             THEN IF ~s.criterion.isNil
                  THEN IF MatchString(s.criterion, sfv)
                       THEN TRUE
                       ELSE matchSubfields(s, field, instance, subfields, k + 1)
                  ELSE TRUE
             ELSE matchSubfields(s, field, instance, subfields, k + 1)

\* matchInstances returning after the first occurrence of the field
matchInstances_firstOnly(s, field, instance) ==
    IF instance >= ValueCount(field) THEN FALSE
    ELSE LET subfields == IF s.subfield # EmptyStr
                          THEN <<s.subfield>>
                          ELSE GetSubfields(field, instance)
         IN  matchSubfields(s, field, instance, subfields, 1)

\* the body of "for instance := 0; instance < field.ValueCount(); instance++"
RECURSIVE matchInstances(_, _, _)
matchInstances(s, field, instance) ==
    IF instance >= ValueCount(field) THEN FALSE
    ELSE LET subfields == IF s.subfield # EmptyStr
                          THEN <<s.subfield>>
                          ELSE GetSubfields(field, instance)
         IN  IF matchSubfields(s, field, instance, subfields, 1)
             THEN TRUE
             ELSE matchInstances(s, field, instance + 1)

\* (s *selectionSpec) match(r)
match(s, r) ==
    IF s.field = EmptyStr THEN TRUE
    ELSE IF IsControlFieldTag(s.field)
    THEN LET field == GetControlField(r, s.field)
         IN  IF field.err THEN FALSE
             ELSE IF ~s.criterion.isNil
             THEN MatchString(s.criterion, field.value)
             ELSE TRUE
    ELSE matchInstances(s, GetDataField(r, s.field), 0)

----------------------------------------------------------------------------
(* The renderer.  An output line is <<first column, second column>>.      *)

LeaderToken == <<"L", "e", "a", "d", "e", "r">>

\* value += fmt.Sprintf("$%s%s", sf, field.GetNthSubfield(sf, i)) for the codes from k on
RECURSIVE subfieldText(_, _, _, _)
subfieldText(field, i, codes, k) ==
    IF k > Len(codes) THEN EmptyStr
    ELSE <<"$">> \o codes[k] \o GetNthSubfield(field, codes[k], i)
         \o subfieldText(field, i, codes, k + 1)

\* printDataField(w, field): one line per occurrence of the field
printDataField(field) ==
    [n \in 1..ValueCount(field) |->
        <<field.Tag,
          GetIndicators(field, n - 1)
            \o subfieldText(field, n - 1, GetSubfields(field, n - 1), 1)>>]

\* the lines printRecord writes for the tags of fields from index k on
RECURSIVE printFields(_, _, _)
printFields(record, fields, k) ==
    IF k > Len(fields) THEN <<>>
    ELSE (IF IsControlFieldTag(fields[k])
          THEN << <<fields[k], GetControlField(record, fields[k]).value>> >>
          ELSE printDataField(GetDataField(record, fields[k])))
         \o printFields(record, fields, k + 1)

\* printRecord(record, w): the lines flushed to standard output
printRecord(record) ==
    << <<LeaderToken, GetLeader(record)>> >>
        \o printFields(record, GetFieldList(record), 1)

----------------------------------------------------------------------------
(* The inputs the dump loop is run on *)

T001 == <<"0", "0", "1">>
T020 == <<"0", "2", "0">>
T650 == <<"6", "5", "0">>
T700 == <<"7", "0", "0">>

ControlField(tag, value) == [tag |-> tag, value |-> value, ind |-> EmptyStr, subs |-> <<>>]
DataField(tag, ind, subs) == [tag |-> tag, value |-> EmptyStr, ind |-> ind, subs |-> subs]

\* a record with one control field
RecA == [leader |-> <<"A">>,
         fields |-> << ControlField(T001, <<"a", "b", "c">>) >>]
\* a record whose tag list is 001, 650, 650, 700
RecB == [leader |-> <<"B">>,
         fields |-> << ControlField(T001, <<"x">>),
                       DataField(T650, <<" ", "0">>, << <<<<"a">>, <<"F", "i">>>> >>),
                       DataField(T650, <<" ", "1">>, << <<<<"x">>, <<"a", "b">>>> >>),
                       DataField(T700, <<"1", " ">>, << <<<<"a">>, <<"z">>>> >>) >>]
\* a record with two data fields
RecC == [leader |-> <<"C">>,
         fields |-> << DataField(T020, <<" ", " ">>, << <<<<"a">>, <<"9", "7">>>> >>),
                       DataField(T650, <<" ", "0">>, << <<<<"a">>, <<"F", "i">>>> >>) >>]

NilRecord == [leader |-> EmptyStr, fields |-> <<>>]

\* what reader.Next() can return for one item of the file
RecordItem(r) == [err |-> FALSE, rec |-> r]
DecodeError == [err |-> TRUE, rec |-> NilRecord]
Items == {RecordItem(RecA), RecordItem(RecB), RecordItem(RecC), DecodeError}

Streams == UNION {[1..n -> Items] : n \in 0..MaxStream}

\* the -s values tried: wildcard, a data selector, a control selector with a
\* pattern, a selector that is not in the grammar, a pattern that does not compile
SelectorOpts == { EmptyStr,
                  <<"6", "5", "0", "_", "a">>,
                  <<"0", "0", "1", "=", "(", "b", ")">>,
                  <<"1", "2", "3", "4">>,
                  <<"6", "5", "0", "=", "(">> }

\* the -f values tried
FieldsOpts == { EmptyStr, <<"6", "5", "0">> }

\* the -mkindex values tried
IndexOpts == { EmptyStr, <<"i", "d", "x">> }

----------------------------------------------------------------------------
(* main of marcdump.go *)

\* getActionFunction(): nil when an index is to be made
getActionFunction(mkindex) == IF mkindex # EmptyStr THEN "nil" ELSE "printRecord"

\* the state before main runs, for either main.  maxRecords is a uint; its
\* default math.MaxUint32, like every value above the length of the stream, is
\* never equal to recordCount, which is what the values above the number of
\* matching records stand for.  recordCount is at most the length of the
\* stream, so the addition never wraps.
InitOf(p) ==
    /\ prog = p
    /\ nargs = 0
    /\ fileOk = FALSE
    /\ maxRecords \in 0..MaxLimit
    /\ makeIndex \in (IF prog = "marcdump" THEN IndexOpts ELSE {EmptyStr})
    /\ selectorOpt \in (IF prog = "marcdump" THEN SelectorOpts ELSE {EmptyStr})
    /\ fieldsOpt \in (IF prog = "marcdump" THEN FieldsOpts ELSE {EmptyStr})
    /\ input \in Streams
    /\ pc = "start"
    /\ selector = ZeroSpec
    /\ action = "nil"
    /\ recordCount = 0
    /\ pos = 0
    /\ nextCalls = 0
    /\ rec = NilRecord
    /\ matchRet = FALSE
    /\ out = <<>>
    /\ errs = <<>>
    /\ exitStatus = -1
    /\ rendered = <<>>

Init == InitOf("marcdump")

\* os.Exit(code) after writing msg to standard error
exitWith(msg, code) ==
    /\ errs' = Append(errs, msg)
    /\ exitStatus' = code
    /\ pc' = "exit"

\* flag.Parse(); if flag.NArg() != 1 { usage() }
main_flagParse ==
    /\ pc = "start"
    /\ prog = "marcdump"
    /\ \E n \in 0..2 :
        /\ nargs' = n
        /\ IF n # 1
           THEN exitWith("usage: marcdump [-m max] marcfile", 1)
           ELSE pc' = "open" /\ UNCHANGED <<errs, exitStatus>>
    /\ UNCHANGED <<prog, fileOk, maxRecords, makeIndex, selectorOpt, fieldsOpt, input,
                   selector, action, recordCount, pos, nextCalls, rec, matchRet, out,
                   rendered>>

\* file, err := os.Open(flag.Arg(0)); a failure is reported and exits with 1
main_osOpen ==
    /\ pc = "open"
    /\ prog = "marcdump"
    /\ \E ok \in BOOLEAN :
        /\ fileOk' = ok
        /\ IF ~ok
           THEN exitWith("Error: open", 1)
           ELSE pc' = "selector" /\ UNCHANGED <<errs, exitStatus>>
    /\ UNCHANGED <<prog, nargs, maxRecords, makeIndex, selectorOpt, fieldsOpt, input,
                   selector, action, recordCount, pos, nextCalls, rec, matchRet, out,
                   rendered>>

\* selector, err := getSelectionSpec(); a failure is reported and exits with 1
main_getSelectionSpec ==
    /\ pc = "selector"
    /\ prog = "marcdump"
    /\ LET r == getSelectionSpec(selectorOpt)
       IN  IF r.err # NoError
           THEN exitWith(r.err, 1) /\ UNCHANGED selector
           ELSE /\ selector' = r.spec
                /\ pc' = "action"
                /\ UNCHANGED <<errs, exitStatus>>
    /\ UNCHANGED <<prog, nargs, fileOk, maxRecords, makeIndex, selectorOpt, fieldsOpt,
                   input, action, recordCount, pos, nextCalls, rec, matchRet, out,
                   rendered>>

\* action := getActionFunction(); a nil action is reported and the run goes on
main_getActionFunction ==
    /\ pc = "action"
    /\ prog = "marcdump"
    /\ action' = getActionFunction(makeIndex)
    /\ errs' = IF action' = "nil"
               THEN Append(errs, "Internal Error: could not get action function")
               ELSE errs
    /\ recordCount' = 0
    /\ pc' = "loop"
    /\ UNCHANGED <<prog, nargs, fileOk, maxRecords, makeIndex, selectorOpt, fieldsOpt,
                   input, selector, pos, nextCalls, rec, matchRet, out, exitStatus,
                   rendered>>

\* reader.Next() returned neither record nor error: break, and main returns
loop_endOfStream ==
    /\ pos = Len(input)
    /\ nextCalls' = nextCalls + 1
    /\ pc' = "exit"
    /\ exitStatus' = 0
    /\ UNCHANGED <<pos, rec, matchRet, out, errs, recordCount, rendered>>

\* loop_decodeError with continue for break: the error is reported and the
\* next record is pulled
loop_decodeError_continue ==
    /\ pos < Len(input)
    /\ input[pos + 1].err
    /\ nextCalls' = nextCalls + 1
    /\ pos' = pos + 1
    /\ errs' = Append(errs, "Error: decode")
    /\ UNCHANGED <<pc, exitStatus, rec, matchRet, out, recordCount, rendered>>

\* reader.Next() returned an error: report it, break, and main returns
loop_decodeError ==
    /\ pos < Len(input)
    /\ input[pos + 1].err
    /\ nextCalls' = nextCalls + 1
    /\ pos' = pos + 1
    /\ errs' = Append(errs, "Error: decode")
    /\ pc' = "exit"
    /\ exitStatus' = 0
    /\ UNCHANGED <<rec, matchRet, out, recordCount, rendered>>

\* loop_record without the test of selector.match: every record is rendered
\* and counted
loop_record_noMatchTest ==
    /\ pos < Len(input)
    /\ ~input[pos + 1].err
    /\ nextCalls' = nextCalls + 1
    /\ pos' = pos + 1
    /\ rec' = input[pos + 1].rec
    /\ matchRet' = match(selector, rec')
    /\ IF action = "nil"
       THEN /\ errs' = Append(errs, "panic: nil func call")
            /\ exitStatus' = 2
            /\ pc' = "exit"
            /\ UNCHANGED <<out, recordCount, rendered>>
       ELSE /\ out' = out \o printRecord(rec')
            /\ rendered' = Append(rendered, pos + 1)
            /\ recordCount' = recordCount + 1
            /\ IF recordCount' = maxRecords
               THEN pc' = "exit" /\ exitStatus' = 0
               ELSE UNCHANGED <<pc, exitStatus>>
            /\ UNCHANGED errs

\* reader.Next() returned a record: match it, and on a match call action,
\* count the record and break when the count equals maxRecords
loop_record ==
    /\ pos < Len(input)
    /\ ~input[pos + 1].err
    /\ nextCalls' = nextCalls + 1
    /\ pos' = pos + 1
    /\ rec' = input[pos + 1].rec
    /\ matchRet' = match(selector, rec')
    /\ IF ~matchRet'
       THEN UNCHANGED <<pc, exitStatus, out, errs, recordCount, rendered>>
       ELSE IF action = "nil"
       THEN \* the call of a nil func value panics: the runtime exits with 2
            /\ errs' = Append(errs, "panic: nil func call")
            /\ exitStatus' = 2
            /\ pc' = "exit"
            /\ UNCHANGED <<out, recordCount, rendered>>
       ELSE /\ out' = out \o printRecord(rec')
            /\ rendered' = Append(rendered, pos + 1)
            /\ recordCount' = recordCount + 1
            /\ IF recordCount' = maxRecords
               THEN pc' = "exit" /\ exitStatus' = 0
               ELSE UNCHANGED <<pc, exitStatus>>
            /\ UNCHANGED errs

\* one iteration of the for loop of main, up to the return of main when it breaks
main_loop ==
    /\ pc = "loop"
    /\ prog = "marcdump"
    /\ \/ loop_endOfStream
       \/ loop_decodeError
       \/ loop_record
    /\ UNCHANGED <<prog, nargs, fileOk, maxRecords, makeIndex, selectorOpt, fieldsOpt,
                   input, selector, action>>

----------------------------------------------------------------------------
(* main of part_000, which has neither selector nor action *)

\* flag.Parse(); if flag.NArg() != 1 { usage() }
main0_flagParse ==
    /\ pc = "start"
    /\ prog = "part_000"
    /\ \E n \in 0..2 :
        /\ nargs' = n
        /\ IF n # 1
           THEN exitWith("usage: marcdump [-m max] marcfile", 1)
           ELSE pc' = "open" /\ UNCHANGED <<errs, exitStatus>>
    /\ UNCHANGED <<prog, fileOk, maxRecords, makeIndex, selectorOpt, fieldsOpt, input,
                   selector, action, recordCount, pos, nextCalls, rec, matchRet, out,
                   rendered>>

\* file, err := os.Open(flag.Arg(0)); a failure is reported and the run goes on
main0_osOpen ==
    /\ pc = "open"
    /\ prog = "part_000"
    /\ \E ok \in BOOLEAN :
        /\ fileOk' = ok
        /\ errs' = IF ~ok THEN Append(errs, "Error: open") ELSE errs
    /\ recordCount' = 0
    /\ pc' = "loop"
    /\ UNCHANGED <<prog, nargs, maxRecords, makeIndex, selectorOpt, fieldsOpt, input,
                   selector, action, pos, nextCalls, rec, matchRet, out, exitStatus,
                   rendered>>

\* one iteration of the for loop of main, up to the return of main when it breaks
main0_loop ==
    /\ pc = "loop"
    /\ prog = "part_000"
    /\ nextCalls' = nextCalls + 1
    /\ IF ~fileOk
       THEN \* the reader of a nil file yields no record: end of stream or an error
            /\ \E failed \in BOOLEAN :
                errs' = IF failed THEN Append(errs, "Error: decode") ELSE errs
            /\ pc' = "exit"
            /\ exitStatus' = 0
            /\ UNCHANGED <<pos, rec, out, recordCount, rendered>>
       ELSE IF pos = Len(input)
       THEN /\ pc' = "exit"
            /\ exitStatus' = 0
            /\ UNCHANGED <<pos, rec, out, errs, recordCount, rendered>>
       ELSE IF input[pos + 1].err
       THEN /\ pos' = pos + 1
            /\ errs' = Append(errs, "Error: decode")
            /\ pc' = "exit"
            /\ exitStatus' = 0
            /\ UNCHANGED <<rec, out, recordCount, rendered>>
       ELSE /\ pos' = pos + 1
            /\ rec' = input[pos + 1].rec
            /\ out' = out \o printRecord(rec')
            /\ rendered' = Append(rendered, pos + 1)
            /\ recordCount' = recordCount + 1
            /\ IF recordCount' = maxRecords
               THEN pc' = "exit" /\ exitStatus' = 0
               ELSE UNCHANGED <<pc, exitStatus>>
            /\ UNCHANGED errs
    /\ UNCHANGED <<prog, nargs, fileOk, maxRecords, makeIndex, selectorOpt, fieldsOpt,
                   input, selector, action, matchRet>>

Next ==
    \/ main_flagParse
    \/ main_osOpen
    \/ main_getSelectionSpec
    \/ main_getActionFunction
    \/ main_loop

Spec == Init /\ [][Next]_vars

\* part_000 run on the same inputs
Init0 == InitOf("part_000")

Next0 ==
    \/ main0_flagParse
    \/ main0_osOpen
    \/ main0_loop

SpecPart000 == Init0 /\ [][Next0]_vars

----------------------------------------------------------------------------
(* The rendering the specification describes, stated on the fields of a   *)
(* record in file order                                                    *)

\* the text of the subfields of one occurrence: $<code><value> for each, in order
RECURSIVE SubfieldsText(_)
SubfieldsText(subs) ==
    IF subs = <<>> THEN EmptyStr
    ELSE <<"$">> \o Head(subs)[1] \o Head(subs)[2] \o SubfieldsText(Tail(subs))

\* the one output line of one field of the file
FieldLine(f) ==
    IF IsControlFieldTag(f.tag)
    THEN <<f.tag, f.value>>
    ELSE <<f.tag, f.ind \o SubfieldsText(f.subs)>>

\* the tags of a record
TagsOf(r) == {r.fields[i].tag : i \in 1..Len(r.fields)}

\* one line per field of r whose tag is in tags, in the record's field order
FieldLines(r, tags) ==
    LET kept == SelectSeq(r.fields, LAMBDA f : f.tag \in tags)
    IN  [i \in 1..Len(kept) |-> FieldLine(kept[i])]

\* the tags a colon separated list names
RECURSIVE ProjectionTags(_)
ProjectionTags(opt) ==
    IF \A i \in 1..Len(opt) : opt[i] # ":"
    THEN IF opt = EmptyStr THEN {} ELSE {opt}
    ELSE LET i == CHOOSE j \in 1..Len(opt) :
                      opt[j] = ":" /\ \A k \in 1..(j - 1) : opt[k] # ":"
         IN  (IF i = 1 THEN {} ELSE {SubSeq(opt, 1, i - 1)})
             \cup ProjectionTags(SubSeq(opt, i + 1, Len(opt)))

\* the field lines of the records rendered so far, from the k-th on, narrowed to
\* the projection when one is given
RECURSIVE ProjectedLines(_)
ProjectedLines(k) ==
    IF k > Len(rendered) THEN <<>>
    ELSE FieldLines(input[rendered[k]].rec, ProjectionTags(fieldsOpt))
         \o ProjectedLines(k + 1)

\* the leader line and every field line of the records rendered so far, from the k-th on
RECURSIVE FullLines(_)
FullLines(k) ==
    IF k > Len(rendered) THEN <<>>
    ELSE LET r == input[rendered[k]].rec
         IN  << <<LeaderToken, r.leader>> >> \o FieldLines(r, TagsOf(r))
             \o FullLines(k + 1)

\* C1: with a non-empty -f projection the field lines written are exactly the
\* lines of the fields whose tag is in the projection, in the record's order;
\* fields outside the projection are omitted
C1_ProjectionFiltersFields ==
    fieldsOpt # EmptyStr =>
        SelectSeq(out, LAMBDA line : line[1] # LeaderToken) = ProjectedLines(1)

\* C7: with an empty projection the output is, for every rendered record, its
\* leader line followed by one line per field of the record in field order, each
\* occurrence of a repeated data tag exactly once
C7_EveryFieldOncePerOccurrence ==
    fieldsOpt = EmptyStr => out = FullLines(1)

----------------------------------------------------------------------------
(* The dump loop *)

\* the decoder has returned an error
DecodeErrorSeen == pos > 0 /\ input[pos].err

\* the positions among the first n items of records that satisfy the selector
MatchingPositions(n) ==
    SelectSeq([i \in 1..n |-> i],
              LAMBDA i : ~input[i].err /\ match(selector, input[i].rec))

\* C2: the number of records rendered never exceeds the -m value, and with
\* m = 1 and three matching records the run ends normally with one rendered
C2_LimitBoundsOutput ==
    /\ Len(rendered) <= maxRecords
    /\ (/\ pc = "exit" /\ maxRecords = 1 /\ nextCalls > 0 /\ fileOk
        /\ action = "printRecord"
        /\ Len(MatchingPositions(Len(input))) = 3)
       => (Len(rendered) = 1 /\ exitStatus = 0)

\* C3: a run that ends at end of stream or at the match limit exits with 0; a
\* run that ends on a usage, open, selector or decode error has written a
\* diagnostic and exits with 1
C3_ExitStatusReflectsOutcome ==
    pc = "exit" =>
        IF \/ nargs # 1
           \/ ~fileOk
           \/ getSelectionSpec(selectorOpt).err # NoError
           \/ DecodeErrorSeen
        THEN exitStatus = 1 /\ errs # <<>>
        ELSE exitStatus # 2 => exitStatus = 0

\* C4: when -mkindex names a file the run renders nothing, reports no internal
\* error and never fails on a record that matches the selector
C4_IndexIsSilentNoOp ==
    makeIndex # EmptyStr =>
        /\ rendered = <<>>
        /\ out = <<>>
        /\ \A i \in 1..Len(errs) :
              errs[i] \notin {"Internal Error: could not get action function",
                              "panic: nil func call"}
        /\ exitStatus \in {-1, 0, 1}
        /\ (pc = "exit" /\ nargs = 1 /\ fileOk
            /\ getSelectionSpec(selectorOpt).err = NoError /\ ~DecodeErrorSeen)
           => exitStatus = 0

\* the start-up failures
SelectorFails == getSelectionSpec(selectorOpt).err # NoError
OpenFailed == pc \notin {"start", "open"} /\ nargs = 1 /\ ~fileOk

\* C8: in either main, when the selector does not parse the run ends with a
\* diagnostic and status 1 before reader.Next() is ever called and before
\* anything is rendered; when the file cannot be opened the run has reported
\* it and ended with status 1 without a call of reader.Next(), and no record
\* is pulled or rendered
C8_StartupErrorsFatal ==
    /\ SelectorFails =>
          /\ pc \in {"start", "open", "selector", "exit"}
          /\ nextCalls = 0 /\ pos = 0 /\ rendered = <<>> /\ out = <<>>
          /\ (pc = "exit" /\ nargs = 1 /\ fileOk)
             => (exitStatus = 1 /\ errs = <<getSelectionSpec(selectorOpt).err>>)
    /\ OpenFailed =>
          /\ pos = 0 /\ rendered = <<>> /\ out = <<>> /\ recordCount = 0
          /\ errs # <<>> /\ errs[1] = "Error: open"
          /\ pc = "exit" /\ exitStatus = 1 /\ nextCalls = 0

\* C9: once the decoder has returned an error the run has reported it and
\* stopped, and from then on nothing is pulled, matched, counted or rendered,
\* while what was rendered before stays
C9_DecodeErrorAbsorbing ==
    /\ [](DecodeErrorSeen =>
            (pc = "exit" /\ errs # <<>> /\ errs[Len(errs)] = "Error: decode"))
    /\ [][DecodeErrorSeen =>
            /\ DecodeErrorSeen'
            /\ UNCHANGED <<pos, nextCalls, rec, matchRet, recordCount, rendered, out,
                           errs>>]_vars

\* a decode error arrived after a record was rendered and before the end of
\* the stream
C9_Witness ==
    /\ DecodeErrorSeen
    /\ rendered # <<>>
    /\ pos < Len(input) /\ ~input[pos + 1].err

\* whether main has selected printRecord as its action
RenderSelected == pc \in {"loop", "exit"} /\ action = "printRecord"

\* C10: with the render action selected, the records rendered so far are
\* exactly the records pulled so far that satisfy the selector, in stream
\* order, and the match counter is their number
C10_RenderedAreTheMatches ==
    RenderSelected =>
        /\ rendered = MatchingPositions(pos)
        /\ recordCount = Len(rendered)
        /\ nextCalls \in {pos, pos + 1}

\* two records were rendered and a pulled record that does not match was skipped
C10_Witness ==
    /\ action = "printRecord"
    /\ Len(rendered) = 2
    /\ \E i \in 1..pos : ~input[i].err /\ i \notin {rendered[1], rendered[2]}

----------------------------------------------------------------------------
(* The selector parser on every short selector string *)

\* the characters of the selector strings tried: one of each class of the
\* grammar, the two separators, a character that makes a pattern invalid and
\* the character '.' does not match
SelectorChars == {"0", "A", "_", "=", "(", "\n"}

\* main at the call of getSelectionSpec, for every selector string
InitParse ==
    /\ prog = "marcdump"
    /\ nargs = 1
    /\ fileOk = TRUE
    /\ maxRecords = 0
    /\ makeIndex = EmptyStr
    /\ \E n \in 0..MaxSelLen : selectorOpt \in [1..n -> SelectorChars]
    /\ fieldsOpt = EmptyStr
    /\ input = <<>>
    /\ pc = "selector"
    /\ selector = ZeroSpec
    /\ action = "nil"
    /\ recordCount = 0
    /\ pos = 0
    /\ nextCalls = 0
    /\ rec = NilRecord
    /\ matchRet = FALSE
    /\ out = <<>>
    /\ errs = <<>>
    /\ exitStatus = -1
    /\ rendered = <<>>

NextParse == main_getSelectionSpec

SpecParse == InitParse /\ [][NextParse]_vars

\* the grammar FIELD['_'SUBFIELD]['='PATTERN] of the specification
GrammarFieldChars == Digits \cup Upper \cup Lower
GrammarSubfieldChars == Digits \cup Lower

\* the string a field, an optional subfield and an optional pattern spell
Spell(f, sb, pt) ==
    f \o (IF sb = EmptyStr THEN EmptyStr ELSE <<"_">> \o sb)
      \o (IF pt = EmptyStr THEN EmptyStr ELSE <<"=">> \o pt)

\* the ways to read opt as FIELD['_'SUBFIELD]['='PATTERN], the characters of
\* PATTERN taken from patternChars
Readings(opt, patternChars) ==
    { d \in [ f  : {SubSeq(opt, 1, IF Len(opt) < 3 THEN Len(opt) ELSE 3)},
              sb : {EmptyStr} \cup {<<opt[i]>> : i \in 1..Len(opt)},
              pt : {SubSeq(opt, i, Len(opt)) : i \in 1..(Len(opt) + 1)} ] :
        /\ Spell(d.f, d.sb, d.pt) = opt
        /\ Len(d.f) = 3
        /\ \A i \in 1..3 : d.f[i] \in GrammarFieldChars
        /\ \A i \in 1..Len(d.sb) : d.sb[i] \in GrammarSubfieldChars
        /\ \A i \in 1..Len(d.pt) : d.pt[i] \in patternChars }

\* the outcome the specification gives getSelectionSpec on selectorOpt, PATTERN
\* being one or more characters of patternChars
ParsedAsGrammar(patternChars) ==
    pc # "selector" =>
        IF selectorOpt = EmptyStr
        THEN pc = "action" /\ errs = <<>> /\ selector = ZeroSpec
        ELSE LET rs == Readings(selectorOpt, patternChars)
             IN  IF rs = {}
                 THEN pc = "exit" /\ errs = <<errInvalidSelectorSpec>>
                 ELSE /\ Cardinality(rs) = 1
                      /\ \A d \in rs :
                           IF d.pt = EmptyStr \/ regexpCompileOk(d.pt)
                           THEN /\ pc = "action" /\ errs = <<>>
                                /\ selector.field = d.f
                                /\ selector.subfield = d.sb
                                /\ selector.criterion =
                                     (IF d.pt = EmptyStr THEN NilRegexp
                                      ELSE regexpCompiled(d.pt))
                           ELSE pc = "exit" /\ errs = <<errRegexpCompile>>

\* C6 as claimed: getSelectionSpec gives the wildcard for the empty string, the
\* parts of FIELD['_'SUBFIELD]['='PATTERN] (or the compile error of PATTERN)
\* for a string of the grammar, PATTERN being any one or more characters, and
\* InvalidSelectorSpec for every other string
C6_ParsesGrammar_AnyPatternChar == ParsedAsGrammar(SelectorChars)

\* C6 amended: the same, PATTERN being one or more characters none of which is
\* a newline; a string whose pattern part holds a newline is InvalidSelectorSpec
C6_ParsesGrammar_NoNewline == ParsedAsGrammar(SelectorChars \ {"\n"})

\* a selector with all three parts was parsed into its parts
C6_Witness ==
    /\ pc = "action"
    /\ selector.field # EmptyStr /\ selector.subfield # EmptyStr
    /\ ~selector.criterion.isNil

----------------------------------------------------------------------------
(* The matcher on every small selection spec and record *)

\* the values of control fields and subfields: empty, one that holds "x" in
\* its middle or end, and one that does not hold it
MatchValues == {EmptyStr, <<"y">>, <<"y", "x">>}

\* the subfield codes of an occurrence, in the order they are stored
MatchCodes == << <<"a">>, <<"b">> >>

\* the occurrences of the data field: each code absent or holding a value
MatchOccurrences ==
    { DataField(T650, <<" ", "0">>,
                SelectSeq([k \in 1..Len(MatchCodes) |-> <<MatchCodes[k], v[k]>>],
                          LAMBDA sf : sf[2] # <<"-">>)) :
        v \in [1..Len(MatchCodes) -> MatchValues \cup {<<"-">>}] }

\* the control fields of a record: none, or 001 with a value
MatchControls ==
    {<<>>} \cup { <<ControlField(T001, v)>> : v \in MatchValues }

\* the selection specs getSelectionSpec can return for the tags 001, 650, 700
MatchSpecs ==
    [ field : {EmptyStr, T001, T650, T700},
      subfield : {EmptyStr, <<"a">>, <<"b">>},
      criterion : {NilRegexp, regexpCompiled(<<"x">>)} ]

\* a selection spec and a record, before the call of match
InitMatch ==
    /\ prog = "marcdump"
    /\ nargs = 1
    /\ fileOk = TRUE
    /\ maxRecords = 0
    /\ makeIndex = EmptyStr
    /\ selectorOpt = EmptyStr
    /\ fieldsOpt = EmptyStr
    /\ input = <<>>
    /\ pc = "match"
    /\ selector \in MatchSpecs
    /\ action = "printRecord"
    /\ recordCount = 0
    /\ pos = 0
    /\ nextCalls = 0
    /\ \E c \in MatchControls : \E n \in 0..MaxOcc : \E d \in [1..n -> MatchOccurrences] :
          rec = [leader |-> <<"M">>, fields |-> c \o d]
    /\ matchRet = FALSE
    /\ out = <<>>
    /\ errs = <<>>
    /\ exitStatus = -1
    /\ rendered = <<>>

\* selector.match(rec)
callMatch ==
    /\ pc = "match"
    /\ matchRet' = match(selector, rec)
    /\ pc' = "matched"
    /\ UNCHANGED <<prog, nargs, fileOk, maxRecords, makeIndex, selectorOpt, fieldsOpt,
                   input, selector, action, recordCount, pos, nextCalls, rec, out,
                   errs, exitStatus, rendered>>

NextMatch == callMatch

SpecMatch == InitMatch /\ [][NextMatch]_vars

\* whether value v satisfies the pattern-or-presence rule of spec s
Satisfies(s, v) == s.criterion.isNil \/ MatchString(s.criterion, v)

\* the reference predicate of the specification
MatchReference(s, r) ==
    \/ s.field = EmptyStr
    \/ /\ s.field # EmptyStr
       /\ IsControlFieldTag(s.field)
       /\ \E i \in 1..Len(r.fields) :
             r.fields[i].tag = s.field /\ Satisfies(s, r.fields[i].value)
    \/ /\ s.field # EmptyStr
       /\ ~IsControlFieldTag(s.field)
       /\ \E i \in 1..Len(r.fields) :
             /\ r.fields[i].tag = s.field
             /\ \E k \in 1..Len(r.fields[i].subs) :
                   LET code == r.fields[i].subs[k][1]
                       value == r.fields[i].subs[k][2]
                   IN  /\ s.subfield # EmptyStr => code = s.subfield
                       /\ value # EmptyStr
                       /\ Satisfies(s, value)

\* C5: match returns, for every spec and record, the value of the reference
\* predicate: true for the wildcard; for a control tag, iff the value is
\* present and satisfies the criterion; for a data tag, iff some occurrence
\* holds, under the spec's subfield code or under any code when none is
\* given, a non-empty value that satisfies the criterion
C5_MatchEqualsReference ==
    pc = "matched" => (matchRet = MatchReference(selector, rec))

\* match returned true for a data selector with subfield and criterion when
\* only the last of several occurrences satisfies it and an earlier one holds
\* a satisfying value under another code
C5_Witness ==
    /\ pc = "matched" /\ matchRet
    /\ selector.field = T650 /\ selector.subfield = <<"a">>
    /\ ~selector.criterion.isNil
    /\ Len(rec.fields) >= 2
    /\ rec.fields[1].subs = << <<<<"a">>, <<"y">>>>, <<<<"b">>, <<"y", "x">>>> >>
    /\ \A i \in 1..(Len(rec.fields) - 1) :
          ~match(selector, [leader |-> rec.leader, fields |-> <<rec.fields[i]>>])

====
